---- MODULE Spec2Model ----
(***************************************************************************)
(* Event-boundary detection of nelpy/utils.py:                             *)
(*   find_threshold_crossing_events  (single-threshold crossing runs)      *)
(*   get_events_boundaries           (dual-threshold event windows)        *)
(*                                                                         *)
(* Both are pure functions.  A behaviour is one call: Init draws the       *)
(* arguments, the call action applies the function and stores what the     *)
(* caller observes (the returned arrays, the raised exception, the         *)
(* warning).  Samples, thresholds and durations are small integers.        *)
(* Indices are 0-based as in the source; TLA+ sequences are 1-based, so    *)
(* sample i of x is x[i + 1].                                              *)
(*                                                                         *)
(* Boolean-mask indexing written a[[mask]] in the source is modelled with  *)
(* the meaning it has for the NumPy releases the module was written for    *)
(* (a list holding one array is read as the index tuple, i.e. a[mask]).    *)
(***************************************************************************)
EXTENDS Integers, Sequences, FiniteSets

VARIABLES call, pc, ret

vars == <<call, pc, ret>>

\* ---------------------------------------------------------------- bounds
MaxLen == 4
MaxDur == 2
MaxDs == 2

\* sample and threshold levels: below, at and above a threshold
Levels == 0..2

\* the value of an optional argument that was not given
None == -1

Modes == {"above", "below", "sideways"}

Samples == UNION {[1..n -> Levels] : n \in 0..MaxLen}

\* ------------------------------------------------------- array helpers
\* a one-dimensional ndarray holding the sequence s
array1d(s) == [ndim |-> 1, data |-> s]

\* ndarray.squeeze(): every axis of length one is removed, so a one-sample
\* sequence becomes a 0-d array
squeeze(a) ==
  IF a.ndim = 1 /\ Len(a.data) = 1 THEN [ndim |-> 0, data |-> a.data] ELSE a

slice_min(s, first, last) ==
  CHOOSE m \in {s[i + 1] : i \in first..last} :
    \A i \in first..last : m <= s[i + 1]

\* x[first:(last+1)].max()
slice_max(s, first, last) ==
  CHOOSE m \in {s[i + 1] : i \in first..last} :
    \A i \in first..last : s[i + 1] <= m

cross_threshold_nonstrict(s, threshold, mode) ==
  [i \in 1..Len(s) |->
     IF mode = "below"
     THEN (IF s[i] <= threshold THEN 1 ELSE 0)
     ELSE (IF s[i] >= threshold THEN 1 ELSE 0)]

\* np.where(x < threshold, 1, 0) / np.where(x > threshold, 1, 0)
cross_threshold(s, threshold, mode) ==
  [i \in 1..Len(s) |->
     IF mode = "below"
     THEN (IF s[i] < threshold THEN 1 ELSE 0)
     ELSE (IF s[i] > threshold THEN 1 ELSE 0)]

\* itertools.groupby(enumerate(ct), key=itemgetter(1)): consecutive items
\* with the same key form one group; i is the 1-based position scanned next
RECURSIVE groupby(_, _, _)
groupby(ct, i, acc) ==
  IF i > Len(ct) THEN acc
  ELSE IF acc # <<>> /\ acc[Len(acc)].k = ct[i]
       THEN groupby(ct, i + 1, [acc EXCEPT ![Len(acc)].last = i - 1])
       ELSE groupby(ct, i + 1,
                    Append(acc, [k |-> ct[i], first |-> i - 1, last |-> i - 1]))

\* [v[0][0], v[-1][0]]
event_row_swapped(v) == <<v.last, v.first>>
event_row(v) == <<v.first, v.last>>

IsHit(g) == g.k = 1

find_threshold_crossing_events(x, threshold, mode) ==
  IF mode \notin {"above", "below"}
  THEN [status |-> "NotImplementedError", eventlist |-> <<>>, eventmax |-> <<>>]
  ELSE IF x.ndim = 0
  THEN [status |-> "TypeError", eventlist |-> <<>>, eventmax |-> <<>>]
  ELSE LET hits == SelectSeq(groupby(cross_threshold(x.data, threshold, mode),
                                     1, <<>>), IsHit)
       IN [status |-> "ok",
           eventlist |-> [j \in 1..Len(hits) |-> event_row(hits[j])],
           eventmax |-> [j \in 1..Len(hits) |->
                           slice_max(x.data, hits[j].first, hits[j].last)]]

\* ------------------------------------------------ get_events_boundaries
durations_exclusive(rows, ds) ==
  [j \in 1..Len(rows) |-> (rows[j][2] - rows[j][1]) * ds]

\* (rows[:,1] - rows[:,0] + 1) * ds
durations(rows, ds) ==
  [j \in 1..Len(rows) |-> (rows[j][2] - rows[j][1] + 1) * ds]

\* a[mask] for a boolean mask as long as a: the entries where mask is true
RECURSIVE mask_select(_, _)
mask_select(a, mask) ==
  IF Len(a) = 0 THEN <<>>
  ELSE LET rest == mask_select(Tail(a), Tail(mask))
       IN IF Head(mask) THEN <<Head(a)>> \o rest ELSE rest

ge_mask(d, bound) == [j \in 1..Len(d) |-> d[j] >= bound]
le_mask(d, bound) == [j \in 1..Len(d) |-> d[j] <= bound]

\* np.searchsorted(a, v) with the default side='left': binary search for
\* the first position whose entry is not below v
RECURSIVE bisect_left(_, _, _, _)
bisect_left(a, v, lo, hi) ==
  IF lo >= hi THEN lo
  ELSE LET mid == (lo + hi) \div 2
       IN IF a[mid + 1] < v THEN bisect_left(a, v, mid + 1, hi)
                            ELSE bisect_left(a, v, lo, mid)

searchsorted(a, vs) == [j \in 1..Len(vs) |-> bisect_left(a, vs[j], 0, Len(a))]

\* a[idx] for an integer index array: a negative index counts from the end
item(a, i) == IF i < 0 THEN a[Len(a) + i + 1] ELSE a[i + 1]
take(a, idx) == [j \in 1..Len(idx) |-> item(a, idx[j])]

column0(rows) == [j \in 1..Len(rows) |-> rows[j][1]]

\* the values of a set in ascending order
RECURSIVE sorted_values(_)
sorted_values(S) ==
  IF S = {} THEN <<>>
  ELSE LET m == CHOOSE v \in S : \A w \in S : v <= w
       IN <<m>> \o sorted_values(S \ {m})

first_index(a, v) ==
  (CHOOSE j \in 1..Len(a) : a[j] = v /\ \A k \in 1..(j - 1) : a[k] # v) - 1

\* _, unique_idx = np.unique(a, return_index=True): for every distinct
\* value, in ascending order, the index of its first occurrence
all_index(a) == [j \in 1..Len(a) |-> j - 1]
unique_index(a) ==
  LET u == sorted_values({a[j] : j \in 1..Len(a)})
  IN [j \in 1..Len(u) |-> first_index(a, u[j])]

Raise(e) ==
  [status |-> e, warned |-> FALSE, bounds |-> <<>>, maxes |-> <<>>,
   events |-> <<>>]

\* bounds, maxes, events = [], [], []; warnings.warn(...); return
NoEvents ==
  [status |-> "ok", warned |-> TRUE, bounds |-> <<>>, maxes |-> <<>>,
   events |-> <<>>]

\* the PrimaryThreshold events that pass minThresholdLength
primary_events(eventlist, minThresholdLength, ds) ==
  IF minThresholdLength # None /\ Len(eventlist) > 0
  THEN mask_select(eventlist, ge_mask(durations(eventlist, ds),
                                      minThresholdLength))
  ELSE eventlist

\* the index, among the SecondaryThreshold events, paired with each event
outer_boundary_indices(bounds, events) ==
  LET found == searchsorted(column0(bounds), column0(events))
  IN [j \in 1..Len(found) |-> found[j] - 1]

\* minLength, then maxLength, applied to bounds, maxes and events alike
length_filter(w, minLength, maxLength, ds) ==
  LET m1 == IF minLength # None /\ Len(w.events) > 0
            THEN ge_mask(durations(w.bounds, ds), minLength)
            ELSE [j \in 1..Len(w.bounds) |-> TRUE]
      w1 == [bounds |-> mask_select(w.bounds, m1),
             maxes |-> mask_select(w.maxes, m1),
             events |-> mask_select(w.events, m1)]
      m2 == IF maxLength # None /\ Len(w1.events) > 0
            THEN le_mask(durations(w1.bounds, ds), maxLength)
            ELSE [j \in 1..Len(w1.bounds) |-> TRUE]
  IN [bounds |-> mask_select(w1.bounds, m2),
      maxes |-> mask_select(w1.maxes, m2),
      events |-> mask_select(w1.events, m2)]

candidates_primary_maxes(x, events, SecondaryThreshold, mode) ==
  LET sec == find_threshold_crossing_events(x, SecondaryThreshold, mode)
      idx == outer_boundary_indices(sec.eventlist, events)
  IN [bounds |-> take(sec.eventlist, idx),
      maxes |-> [j \in 1..Len(events) |->
                   slice_max(x.data, events[j][1], events[j][2])],
      events |-> events]

\* the candidate windows: every surviving event paired with a
\* SecondaryThreshold event and its maximum
candidates(x, events, SecondaryThreshold, mode) ==
  LET sec == find_threshold_crossing_events(x, SecondaryThreshold, mode)
      idx == outer_boundary_indices(sec.eventlist, events)
  IN [bounds |-> take(sec.eventlist, idx),
      maxes |-> take(sec.eventmax, idx),
      events |-> events]

get_events_boundaries(x0, PrimaryThreshold, SecondaryThreshold, minThresholdLength, minLength, maxLength, ds, mode) ==
  LET x == squeeze(x0)
      prim == find_threshold_crossing_events(x, PrimaryThreshold, mode)
  IN IF prim.status # "ok" THEN Raise(prim.status)
     ELSE LET events == primary_events(prim.eventlist, minThresholdLength, ds)
          IN IF Len(events) = 0 THEN NoEvents
             ELSE IF mode = "above" /\ ~(SecondaryThreshold <= PrimaryThreshold)
             THEN Raise("AssertionError")
             ELSE IF mode = "below" /\ ~(SecondaryThreshold >= PrimaryThreshold)
             THEN Raise("AssertionError")
             ELSE IF mode \notin {"above", "below"}
             THEN Raise("NotImplementedError")
             ELSE IF find_threshold_crossing_events(
                        x, SecondaryThreshold, mode).eventlist = <<>>
             THEN Raise("IndexError")
             ELSE LET w == length_filter(
                             candidates(x, events, SecondaryThreshold, mode),
                             minLength, maxLength, ds)
                  IN IF Len(w.events) = 0 THEN NoEvents
                     ELSE LET unique_idx == unique_index(column0(w.bounds))
                          IN [status |-> "ok", warned |-> FALSE,
                              bounds |-> take(w.bounds, unique_idx),
                              maxes |-> take(w.maxes, unique_idx),
                              events |-> take(w.events, unique_idx)]

\* ---------------------------------------------------------------- calls
FtceCalls ==
  [fn : {"find_threshold_crossing_events"}, x : Samples,
   threshold : Levels, mode : Modes]

Lengths == {None} \cup 1..MaxDur

\* every combination of arguments for the supported modes; an unsupported
\* mode is rejected before any other argument is read
GebCalls ==
  [fn : {"get_events_boundaries"}, x : Samples,
   PrimaryThreshold : Levels, SecondaryThreshold : Levels,
   minThresholdLength : Lengths, minLength : Lengths, maxLength : Lengths,
   ds : 1..MaxDs, mode : {"above", "below"}]
  \cup
  [fn : {"get_events_boundaries"}, x : Samples,
   PrimaryThreshold : Levels, SecondaryThreshold : Levels,
   minThresholdLength : {None}, minLength : {None}, maxLength : {None},
   ds : {1}, mode : Modes \ {"above", "below"}]

NoResult == [status |-> "pending"]

\* one call of find_threshold_crossing_events
InitFtce ==
  /\ call \in FtceCalls
  /\ pc = "ready"
  /\ ret = NoResult

CallFindThresholdCrossingEvents ==
  /\ pc = "ready"
  /\ call.fn = "find_threshold_crossing_events"
  /\ ret' = find_threshold_crossing_events(array1d(call.x), call.threshold,
                                           call.mode)
  /\ pc' = "done"
  /\ UNCHANGED call

NextFtce == CallFindThresholdCrossingEvents

SpecFtce == InitFtce /\ [][NextFtce]_vars

\* one call of get_events_boundaries
InitGeb ==
  /\ call \in GebCalls
  /\ pc = "ready"
  /\ ret = NoResult

CallGetEventsBoundaries ==
  /\ pc = "ready"
  /\ call.fn = "get_events_boundaries"
  /\ ret' = get_events_boundaries(array1d(call.x), call.PrimaryThreshold,
                                  call.SecondaryThreshold,
                                  call.minThresholdLength, call.minLength,
                                  call.maxLength, call.ds, call.mode)
  /\ pc' = "done"
  /\ UNCHANGED call

NextGeb == CallGetEventsBoundaries

SpecGeb == InitGeb /\ [][NextGeb]_vars

\* ------------------------------------------------------ claim vocabulary
FtceDone == pc = "done" /\ call.fn = "find_threshold_crossing_events"
GebDone == pc = "done" /\ call.fn = "get_events_boundaries"
Returned == ret.status = "ok"

\* the strict per-sample predicate of a mode
Crosses(v, threshold, mode) ==
  IF mode = "below" THEN v < threshold ELSE v > threshold

\* a..b (0-based, inclusive) is a maximal span of samples crossing threshold
IsRun(s, a, b, threshold, mode) ==
  /\ 0 <= a /\ a <= b /\ b < Len(s)
  /\ \A i \in a..b : Crosses(s[i + 1], threshold, mode)
  /\ a > 0 => ~Crosses(s[a], threshold, mode)
  /\ b < Len(s) - 1 => ~Crosses(s[b + 2], threshold, mode)

RunsOf(s, threshold, mode) ==
  {r \in (0..(Len(s) - 1)) \X (0..(Len(s) - 1)) :
     IsRun(s, r[1], r[2], threshold, mode)}

IsPeak(s, a, b, m) ==
  /\ \E i \in a..b : s[i + 1] = m
  /\ \A i \in a..b : s[i + 1] <= m

Rows(rows) == {rows[k] : k \in 1..Len(rows)}

ValidThresholds ==
  \/ call.mode = "above" /\ call.SecondaryThreshold <= call.PrimaryThreshold
  \/ call.mode = "below" /\ call.SecondaryThreshold >= call.PrimaryThreshold

InvalidThresholds ==
  \/ call.mode = "above" /\ call.SecondaryThreshold > call.PrimaryThreshold
  \/ call.mode = "below" /\ call.SecondaryThreshold < call.PrimaryThreshold

\* the primary runs that pass minThresholdLength
QualifyingRuns ==
  {r \in RunsOf(call.x, call.PrimaryThreshold, call.mode) :
     call.minThresholdLength # None =>
       (r[2] - r[1] + 1) * call.ds >= call.minThresholdLength}

Encloses(w, r) == w[1] <= r[1] /\ r[2] <= w[2]

NoLengthFilter ==
  /\ call.minThresholdLength = None
  /\ call.minLength = None
  /\ call.maxLength = None

\* ------------------------------------------------------------- claims
\* C1: with a valid threshold pair, every window returned by
\* get_events_boundaries fully contains at least one primary-threshold run
\* that passed minThresholdLength.
C1_WindowContainsPrimaryRun ==
  (GebDone /\ Returned /\ ValidThresholds) =>
    \A k \in 1..Len(ret.bounds) :
      \E r \in QualifyingRuns : Encloses(ret.bounds[k], r)

\* C2: with valid thresholds and no duration filter, the returned windows
\* are exactly the secondary-threshold runs that enclose at least one
\* primary-threshold run.
C2_WindowsAreEnclosingSecondaryRuns ==
  (GebDone /\ Returned /\ ValidThresholds /\ NoLengthFilter) =>
    Rows(ret.bounds) =
      {w \in RunsOf(call.x, call.SecondaryThreshold, call.mode) :
         \E r \in QualifyingRuns : Encloses(w, r)}

\* C3: the returned windows have pairwise distinct starts, are in strictly
\* ascending order of start, and do not overlap (each stop is below the
\* next start).
C3_WindowsOrderedDisjoint ==
  (GebDone /\ Returned) =>
    \A k \in 1..(Len(ret.bounds) - 1) :
      /\ ret.bounds[k][1] < ret.bounds[k + 1][1]
      /\ ret.bounds[k][2] < ret.bounds[k + 1][1]

C3_Witness ==
  /\ GebDone /\ Returned /\ ValidThresholds
  /\ Len(ret.bounds) >= 2
  /\ \E k \in 1..Len(ret.bounds) : ret.bounds[k][1] < ret.bounds[k][2]

\* C4: a call whose threshold pair violates the directional constraint
\* aborts with an error and returns no result, whatever the samples are.
C4_InvalidThresholdsAbort ==
  (GebDone /\ InvalidThresholds) => ~Returned

\* the candidate windows of the call: one per surviving primary event,
\* before the minLength / maxLength filters
CandidateWindows ==
  LET x == array1d(call.x)
      prim == find_threshold_crossing_events(x, call.PrimaryThreshold,
                                             call.mode)
      events == primary_events(prim.eventlist, call.minThresholdLength,
                               call.ds)
  IN IF Len(events) = 0 THEN {}
     ELSE Rows(candidates(x, events, call.SecondaryThreshold,
                          call.mode).bounds)

InLengthRange(w) ==
  /\ call.minLength # None => (w[2] - w[1] + 1) * call.ds >= call.minLength
  /\ call.maxLength # None => (w[2] - w[1] + 1) * call.ds <= call.maxLength

\* C5: minLength and maxLength are applied to the window duration: a
\* candidate window is kept exactly when
\* minLength <= (stop - start + 1) * ds <= maxLength.
C5_LengthFilterOnWindows ==
  (GebDone /\ Returned /\ ValidThresholds) =>
    Rows(ret.bounds) = {w \in CandidateWindows : InLengthRange(w)}

C5_Witness ==
  /\ GebDone /\ Returned /\ ValidThresholds
  /\ call.minLength # None /\ call.maxLength # None
  /\ Len(ret.bounds) >= 1
  /\ \E w \in CandidateWindows : ~InLengthRange(w)
  /\ \E r \in QualifyingRuns : \E w \in Rows(ret.bounds) :
       Encloses(w, r) /\ w # r

\* C6: when no primary run passes minThresholdLength, or no candidate
\* window passes minLength / maxLength, the call completes without raising,
\* warns "no events satisfied criteria" and returns empty sequences.
C6_NoEventsReturnsEmpty ==
  (/\ GebDone
   /\ call.mode \in {"above", "below"}
   /\ \/ QualifyingRuns = {}
      \/ /\ ValidThresholds
         /\ \A w \in CandidateWindows : ~InLengthRange(w)) =>
    /\ Returned
    /\ ret.warned
    /\ ret.bounds = <<>> /\ ret.maxes = <<>> /\ ret.events = <<>>

\* C7: every index inside a run returned by find_threshold_crossing_events
\* satisfies the strict predicate, the indices next to the run do not, and
\* every index satisfying the predicate lies in some run.
C7_RunsMaximalExact ==
  (FtceDone /\ Returned) =>
    /\ \A k \in 1..Len(ret.eventlist) :
         IsRun(call.x, ret.eventlist[k][1], ret.eventlist[k][2],
               call.threshold, call.mode)
    /\ \A i \in 0..(Len(call.x) - 1) :
         Crosses(call.x[i + 1], call.threshold, call.mode) =>
           \E k \in 1..Len(ret.eventlist) :
             ret.eventlist[k][1] <= i /\ i <= ret.eventlist[k][2]

C7_Witness ==
  /\ FtceDone /\ Returned
  /\ Len(ret.eventlist) >= 1
  /\ \E k \in 1..Len(ret.eventlist) :
       /\ ret.eventlist[k][1] > 0
       /\ call.x[ret.eventlist[k][1]] = call.threshold
       /\ ret.eventlist[k][2] > ret.eventlist[k][1]

\* C8: the runs of one find_threshold_crossing_events call do not overlap,
\* each has start <= stop, and they are in strictly increasing order of
\* start.
C8_RunsOrderedDisjoint ==
  (FtceDone /\ Returned) =>
    /\ \A k \in 1..Len(ret.eventlist) :
         ret.eventlist[k][1] <= ret.eventlist[k][2]
    /\ \A k \in 1..(Len(ret.eventlist) - 1) :
         /\ ret.eventlist[k][1] < ret.eventlist[k + 1][1]
         /\ ret.eventlist[k][2] < ret.eventlist[k + 1][1]

C8_Witness ==
  /\ FtceDone /\ Returned
  /\ Len(ret.eventlist) >= 2
  /\ \E k \in 1..Len(ret.eventlist) :
       ret.eventlist[k][1] < ret.eventlist[k][2]

\* C9: find_threshold_crossing_events returns one peak per run, in run
\* order, and the peak is the maximum sample of the run in both modes.
C9_PeakIsRunMaximum ==
  (FtceDone /\ Returned) =>
    /\ Len(ret.eventmax) = Len(ret.eventlist)
    /\ \A k \in 1..Len(ret.eventlist) :
         IsPeak(call.x, ret.eventlist[k][1], ret.eventlist[k][2],
                ret.eventmax[k])

C9_Witness ==
  /\ FtceDone /\ Returned
  /\ call.mode = "below"
  /\ Len(ret.eventlist) >= 2
  /\ \E k \in 1..Len(ret.eventlist) :
       \E i \in ret.eventlist[k][1]..ret.eventlist[k][2] :
         call.x[i + 1] < ret.eventmax[k]

\* C10: the peak reported with a window returned by get_events_boundaries
\* is the maximum sample over that window's inclusive index range.
C10_PeakIsWindowMaximum ==
  (GebDone /\ Returned) =>
    /\ Len(ret.maxes) = Len(ret.bounds)
    /\ \A k \in 1..Len(ret.bounds) :
         IsPeak(call.x, ret.bounds[k][1], ret.bounds[k][2], ret.maxes[k])

C10_Witness ==
  /\ GebDone /\ Returned
  /\ Len(ret.bounds) >= 2
  /\ \E k \in 1..Len(ret.bounds) :
       ret.bounds[k][1] < ret.bounds[k][2]
  /\ \E j, k \in 1..Len(ret.bounds) : ret.maxes[j] # ret.maxes[k]

\* ---------------------------------------------- get_contiguous_segments
\* largest position drawn for get_contiguous_segments
MaxPos == 4

PositionSeqs == UNION {[1..n -> 0..MaxPos] : n \in 0..MaxLen}

\* np.diff(data)
diff(data) == [j \in 1..(Len(data) - 1) |-> data[j + 1] - data[j]]

remove_at(s, k) == [j \in 1..(Len(s) - 1) |-> IF j < k THEN s[j] ELSE s[j + 1]]

\* np.sort(data)
RECURSIVE np_sort(_)
np_sort(s) ==
  IF Len(s) = 0 THEN <<>>
  ELSE LET k == CHOOSE k \in 1..Len(s) : \A j \in 1..Len(s) : s[k] <= s[j]
       IN <<s[k]>> \o np_sort(remove_at(s, k))

\* 2 * np.median(d) for a non-empty d: twice the middle entry of the sorted
\* d, or the sum of the two middle entries when their number is even
twice_median(d) ==
  LET s == np_sort(d)
      n == Len(d)
  IN IF n % 2 = 1 THEN 2 * s[(n + 1) \div 2]
                  ELSE s[n \div 2] + s[n \div 2 + 1]

two_step_single(data, step) ==
  IF step = None THEN twice_median(diff(data)) \div 2 ELSE step

\* 2*step, with step = np.median(np.diff(data)) when it is not given
two_step(data, step) ==
  IF step = None THEN twice_median(diff(data)) ELSE 2 * step

\* np.argwhere(np.diff(data) >= 2*step): the 0-based indices, ascending
breaks(data, step) ==
  LET d == diff(data)
  IN IF Len(d) = 0 THEN <<>>
     ELSE mask_select(all_index(d), ge_mask(d, two_step(data, step)))

\* the in_memory branch
segments_in_memory(data, step) ==
  LET b == breaks(data, step)
      starts == <<0>> \o [j \in 1..Len(b) |-> b[j] + 1]
      stops == b \o <<Len(data) - 1>>
  IN IF Len(data) = 0
     THEN [status |-> "IndexError", warned |-> FALSE, bdries |-> <<>>]
     ELSE [status |-> "ok", warned |-> FALSE,
           bdries |-> [j \in 1..Len(starts) |->
                         <<item(data, starts[j]), item(data, stops[j])>>]]

\* the groupby branch: consecutive entries with the same (index - value)
\* form one segment
segments_out_of_core(data0, step0, sort) ==
  LET step == IF step0 = None THEN 1 ELSE step0
      data == IF sort THEN np_sort(data0) ELSE data0
      d == diff(data)
      groups == groupby([j \in 1..Len(data) |-> (j - 1) - data[j]], 1, <<>>)
  IN [status |-> "ok",
      warned |-> \E j \in 1..Len(d) : d[j] < step,
      bdries |-> [j \in 1..Len(groups) |->
                    <<data[groups[j].first + 1], data[groups[j].last + 1]>>]]

get_contiguous_segments(data, step, sort, in_memory) ==
  IF in_memory THEN segments_in_memory(data, step)
  ELSE segments_out_of_core(data, step, sort)

Steps == {None} \cup 1..MaxDs

GcsCalls ==
  [fn : {"get_contiguous_segments"}, data : PositionSeqs, step : Steps,
   sort : BOOLEAN, in_memory : BOOLEAN]

\* one call of get_contiguous_segments
InitGcs ==
  /\ call \in GcsCalls
  /\ pc = "ready"
  /\ ret = NoResult

CallGetContiguousSegments ==
  /\ pc = "ready"
  /\ call.fn = "get_contiguous_segments"
  /\ ret' = get_contiguous_segments(call.data, call.step, call.sort,
                                    call.in_memory)
  /\ pc' = "done"
  /\ UNCHANGED call

NextGcs == CallGetContiguousSegments

SpecGcs == InitGcs /\ [][NextGcs]_vars

GcsDone == pc = "done" /\ call.fn = "get_contiguous_segments"

IsSorted(s) == \A j \in 1..(Len(s) - 1) : s[j] <= s[j + 1]

\* the k-th smallest entry of d, by counting
KthSmallest(d, k) ==
  CHOOSE v \in {d[j] : j \in 1..Len(d)} :
    /\ Cardinality({j \in 1..Len(d) : d[j] < v}) < k
    /\ Cardinality({j \in 1..Len(d) : d[j] <= v}) >= k

\* twice the step of the call: the given step, or the median of the gaps
TwiceStep ==
  LET n == Len(call.data) - 1
      gaps == [j \in 1..n |-> call.data[j + 1] - call.data[j]]
  IN IF call.step # None THEN 2 * call.step
     ELSE KthSmallest(gaps, (n + 1) \div 2) + KthSmallest(gaps, n \div 2 + 1)

\* a break lies between the (1-based) positions j and j + 1
IsBreak(j) == call.data[j + 1] - call.data[j] >= TwiceStep

\* the (1-based) first and last index of every maximal run between breaks
SegmentSpans ==
  {r \in (1..Len(call.data)) \X (1..Len(call.data)) :
     /\ r[1] <= r[2]
     /\ r[1] = 1 \/ IsBreak(r[1] - 1)
     /\ r[2] = Len(call.data) \/ IsBreak(r[2])
     /\ \A j \in r[1]..(r[2] - 1) : ~IsBreak(j)}

\* C11: for sorted positions the in-memory mode breaks between positions j
\* and j + 1 exactly when the gap is >= 2*step (step defaulting to the
\* median gap) and returns one (first, last) pair per maximal run, in order.
C11_BreakAtTwiceStep ==
  (GcsDone /\ Returned /\ call.in_memory /\ IsSorted(call.data)) =>
    /\ Len(ret.bdries) = Cardinality(SegmentSpans)
    /\ \A r \in SegmentSpans :
         ret.bdries[1 + Cardinality({q \in SegmentSpans : q[1] < r[1]})] =
           <<call.data[r[1]], call.data[r[2]]>>

C11_Witness ==
  /\ GcsDone /\ Returned /\ call.in_memory /\ IsSorted(call.data)
  /\ call.step = None
  /\ Len(ret.bdries) = 2
  /\ \E k \in 1..2 : ret.bdries[k][1] < ret.bdries[k][2]
  /\ \E j \in 1..(Len(call.data) - 1) : IsBreak(j)

\* C12: on empty input every component returns an empty result without
\* raising: get_contiguous_segments returns no segments,
\* find_threshold_crossing_events returns no runs and no peaks, and
\* get_events_boundaries returns no windows and no peaks.
C12_EmptyInputReturnsEmpty ==
  /\ (GcsDone /\ call.data = <<>>) => (Returned /\ ret.bdries = <<>>)
  /\ (FtceDone /\ call.x = <<>> /\ call.mode \in {"above", "below"}) =>
       (Returned /\ ret.eventlist = <<>> /\ ret.eventmax = <<>>)
  /\ (GebDone /\ call.x = <<>> /\ call.mode \in {"above", "below"}) =>
       (Returned /\ ret.bounds = <<>> /\ ret.maxes = <<>>)

\* C13: with sort=True the result equals the result of the call on the
\* sorted sequence, in the in-memory mode and in the out-of-core mode.
C13_SortTrueSortsFirst ==
  (GcsDone /\ call.sort) =>
    ret = get_contiguous_segments(np_sort(call.data), call.step, call.sort,
                                  call.in_memory)

\* C14: given unsorted positions and no pre-sort, get_contiguous_segments
\* signals a warning and still completes with a well-formed result.
C14_UnsortedWarns ==
  (GcsDone /\ ~IsSorted(call.data) /\ ~call.sort) =>
    /\ Returned
    /\ ret.warned
    /\ \A k \in 1..Len(ret.bdries) : Len(ret.bdries[k]) = 2

\* C15: with PrimaryThreshold = SecondaryThreshold and no duration filter,
\* the windows and peaks of get_events_boundaries equal the runs and peaks
\* of find_threshold_crossing_events at that threshold, for every x and
\* mode.
C15_EqualThresholdsIsSimpleCrossing ==
  (/\ GebDone
   /\ call.mode \in {"above", "below"}
   /\ call.PrimaryThreshold = call.SecondaryThreshold
   /\ NoLengthFilter) =>
    LET single == find_threshold_crossing_events(
                    array1d(call.x), call.PrimaryThreshold, call.mode)
    IN /\ ret.status = single.status
       /\ ret.bounds = single.eventlist
       /\ ret.maxes = single.eventmax

\* ------------------------------------------------------- get_mua_events
\* Durations are counted in milliseconds, so that ds = 1/fs and the default
\* duration bounds are integers.
DefaultMinLength == 50
DefaultMaxLength == 750
DefaultMinThresholdLength == 0

RECURSIVE total(_)
total(s) == IF Len(s) = 0 THEN 0 ELSE Head(s) + total(Tail(s))

\* Multiplying the samples and both thresholds by the number of samples
\* leaves every comparison unchanged and makes the mean, total(x) / Len(x),
\* the integer total(x).
scaled(x) == [j \in 1..Len(x) |-> Len(x) * x[j]]

\* PrimaryThreshold is drawn as given by the caller.  The SecondaryThreshold
\* handed to get_events_boundaries is mua.mean() whatever the caller gave.
get_mua_events(x, ds, minLength0, maxLength0, PrimaryThreshold, minThresholdLength0, SecondaryThreshold0) ==
  LET minLength == IF minLength0 = None THEN DefaultMinLength ELSE minLength0
      maxLength == IF maxLength0 = None THEN DefaultMaxLength ELSE maxLength0
      minThresholdLength == IF minThresholdLength0 = None
                            THEN DefaultMinThresholdLength
                            ELSE minThresholdLength0
      found == get_events_boundaries(array1d(scaled(x)),
                                     Len(x) * PrimaryThreshold, total(x),
                                     minThresholdLength, minLength,
                                     maxLength, ds, "above")
  IN IF found.status # "ok" THEN [status |-> found.status, epochs |-> <<>>]
     ELSE IF Len(found.bounds) = 0
     THEN [status |-> "ValueError", epochs |-> <<>>]
     ELSE [status |-> "ok", epochs |-> found.bounds]

MuaCalls ==
  [fn : {"get_mua_events"}, x : Samples, ds : 1..MaxDs,
   minLength : Lengths, maxLength : Lengths, PrimaryThreshold : Levels,
   minThresholdLength : Lengths, SecondaryThreshold : {None} \cup Levels]

\* one call of get_mua_events
InitMua ==
  /\ call \in MuaCalls
  /\ pc = "ready"
  /\ ret = NoResult

CallGetMuaEvents ==
  /\ pc = "ready"
  /\ call.fn = "get_mua_events"
  /\ ret' = get_mua_events(call.x, call.ds, call.minLength, call.maxLength,
                           call.PrimaryThreshold, call.minThresholdLength,
                           call.SecondaryThreshold)
  /\ pc' = "done"
  /\ UNCHANGED call

NextMua == CallGetMuaEvents

SpecMua == InitMua /\ [][NextMua]_vars

MuaDone == pc = "done" /\ call.fn = "get_mua_events"

\* C16: in get_mua_events a SecondaryThreshold supplied by the caller is the
\* level at which the event extents are detected; the mean of the input is
\* the extent level only when SecondaryThreshold is unset.
C16_CallerSecondaryThresholdUsed ==
  (MuaDone /\ Returned) =>
    \A k \in 1..Len(ret.epochs) :
      IF call.SecondaryThreshold # None
      THEN IsRun(call.x, ret.epochs[k][1], ret.epochs[k][2],
                 call.SecondaryThreshold, "above")
      ELSE IsRun(scaled(call.x), ret.epochs[k][1], ret.epochs[k][2],
                 total(call.x), "above")

\* --------------------------------------------------------- linear_merge
\* linear_merge is a generator: the call returns the suspended generator and
\* every next() of the consumer resumes it up to its next yield.  A frame
\* holds the line of the yield it is suspended at (loc), the number of items
\* already taken from each list iterator (i, j) and value1, value2.  A
\* StopIteration raised by next() inside the body ends the generator, as in
\* the Python releases the module was written for (before 3.7).
SortedLists == {s \in Samples : \A j \in 1..(Len(s) - 1) : s[j] <= s[j + 1]}

StartFrame == [loc |-> "start", i |-> 0, j |-> 0, value1 |-> 0, value2 |-> 0]

Yield(f, v) == [frame |-> f, yielded |-> <<v>>, finished |-> FALSE]

Finish(f) ==
  [frame |-> [f EXCEPT !.loc = "end"], yielded |-> <<>>, finished |-> TRUE]

\* while True: yield next(list1)
drain_list1(f, list1, loc) ==
  IF f.i < Len(list1)
  THEN Yield([f EXCEPT !.loc = loc, !.i = f.i + 1], list1[f.i + 1])
  ELSE Finish(f)

\* while True: yield next(list2)
drain_list2(f, list2, loc) ==
  IF f.j < Len(list2)
  THEN Yield([f EXCEPT !.loc = loc, !.j = f.j + 1], list2[f.j + 1])
  ELSE Finish(f)

\* the head of the main loop: yield the lower of value1 and value2
merge_loop(f) ==
  IF f.value1 <= f.value2
  THEN Yield([f EXCEPT !.loc = "L278"], f.value1)
  ELSE Yield([f EXCEPT !.loc = "L289"], f.value2)

list1_exhausted_drop(f, list2) == drain_list2(f, list2, "L287")

\* except StopIteration: yield value2 (then the rest of list2)
list1_exhausted(f, list2) == Yield([f EXCEPT !.loc = "L285"], f.value2)

\* except StopIteration: yield value1 (then the rest of list1)
list2_exhausted(f, list1) == Yield([f EXCEPT !.loc = "L295"], f.value1)

\* one next() on the generator suspended in frame f
resume(f, list1, list2) ==
  CASE f.loc = "start" ->
         IF Len(list1) = 0 THEN drain_list2(f, list2, "L260")
         ELSE IF Len(list2) = 0 THEN drain_list1(f, list1, "L265")
         ELSE merge_loop([f EXCEPT !.i = 1, !.j = 1,
                                   !.value1 = list1[1], !.value2 = list2[1]])
    [] f.loc = "L260" -> drain_list2(f, list2, "L260")
    [] f.loc = "L265" -> drain_list1(f, list1, "L265")
    [] f.loc = "L278" ->
         IF f.i < Len(list1)
         THEN merge_loop([f EXCEPT !.i = f.i + 1, !.value1 = list1[f.i + 1]])
         ELSE list1_exhausted(f, list2)
    [] f.loc \in {"L285", "L287"} -> drain_list2(f, list2, "L287")
    [] f.loc = "L289" ->
         IF f.j < Len(list2)
         THEN merge_loop([f EXCEPT !.j = f.j + 1, !.value2 = list2[f.j + 1]])
         ELSE list2_exhausted(f, list1)
    [] f.loc \in {"L295", "L297"} -> drain_list1(f, list1, "L297")

MergeCalls == [fn : {"linear_merge"}, list1 : SortedLists, list2 : SortedLists]

\* one call of linear_merge and its consumption, [i for i in linear_merge(a, b)]
InitMerge ==
  /\ call \in MergeCalls
  /\ pc = "ready"
  /\ ret = NoResult

CallLinearMerge ==
  /\ pc = "ready"
  /\ call.fn = "linear_merge"
  /\ ret' = [status |-> "suspended", frame |-> StartFrame, out |-> <<>>]
  /\ pc' = "iterating"
  /\ UNCHANGED call

NextItem ==
  /\ pc = "iterating"
  /\ LET r == resume(ret.frame, call.list1, call.list2)
     IN /\ ret' = [status |-> IF r.finished THEN "ok" ELSE "suspended",
                   frame |-> r.frame,
                   out |-> ret.out \o r.yielded]
        /\ pc' = IF r.finished THEN "done" ELSE "iterating"
  /\ UNCHANGED call

NextMerge ==
  \/ CallLinearMerge
  \/ NextItem

SpecMerge == InitMerge /\ [][NextMerge]_vars

\* the consumer keeps calling next() until the generator ends
SpecMergeFair == SpecMerge /\ WF_vars(NextMerge)

MergeDone == pc = "done" /\ call.fn = "linear_merge"

Count(s, v) == Cardinality({j \in 1..Len(s) : s[j] = v})

\* what has been yielded so far is non-decreasing and no longer than both
\* lists together; once the generator has ended it is exactly the elements
\* of both lists with their multiplicities
MergeOutputCorrect ==
  /\ (pc = "iterating" /\ call.fn = "linear_merge") =>
       /\ Len(ret.out) <= Len(call.list1) + Len(call.list2)
       /\ IsSorted(ret.out)
  /\ MergeDone =>
       /\ Returned
       /\ Len(ret.out) = Len(call.list1) + Len(call.list2)
       /\ IsSorted(ret.out)
       /\ \A v \in Levels :
            Count(ret.out, v) = Count(call.list1, v) + Count(call.list2, v)

IsPairedRun(w, r) ==
  /\ w \in RunsOf(call.x, call.SecondaryThreshold, call.mode)
  /\ w[1] <= r[1]
  /\ \A v \in RunsOf(call.x, call.SecondaryThreshold, call.mode) :
       v[1] <= r[1] => v[1] <= w[1]

\* C19: every surviving primary run is paired with the secondary run whose
\* start is the greatest start <= the primary run's start, also when both
\* start at the same index and when that secondary run is the first one.
C19_PairedWithGreatestStartAtOrBefore ==
  (GebDone /\ Returned /\ ValidThresholds) =>
    \A k \in 1..Len(ret.bounds) : IsPairedRun(ret.bounds[k], ret.events[k])

\* C20: bounds, maxes and events have equal length, and events[k] lies
\* inside bounds[k] for every k.
C20_EventsInsideBounds ==
  (GebDone /\ Returned) =>
    /\ Len(ret.bounds) = Len(ret.maxes)
    /\ Len(ret.bounds) = Len(ret.events)
    /\ \A k \in 1..Len(ret.bounds) : Encloses(ret.bounds[k], ret.events[k])

IsStrictlyIncreasing(s) == \A j \in 1..(Len(s) - 1) : s[j] < s[j + 1]

\* C21: for strictly increasing integer positions and step=1 the in-memory
\* mode and the out-of-core mode of get_contiguous_segments are
\* interchangeable: the call ends the same way and returns the same
\* segments as the call on the same data in the other mode.
C21_ModesInterchangeable ==
  (GcsDone /\ IsStrictlyIncreasing(call.data) /\ call.step = 1) =>
    LET other == get_contiguous_segments(call.data, call.step, call.sort,
                                         ~call.in_memory)
    IN /\ ret.status = other.status
       /\ ret.bdries = other.bdries

====
